---- MODULE Spec2Model ----
(***************************************************************************)
(* Model of the RDF reader of horned-owl, src/io/rdf/reader2.rs: the       *)
(* acceptor protocol, the ontology-level acceptor, the declaration         *)
(* axiom-acceptor and the driver read_then_complete.                       *)
(***************************************************************************)
EXTENDS Integers, Sequences, FiniteSets, TLC

\* ------------------------------------------------------------------------
\* Bounds of the model
\* ------------------------------------------------------------------------
\* Longest triple stream fed to the driver.
MaxLen == 3
\* Longest stream and largest acceptor populations of a directly constructed
\* OntologyAcceptor handed to read_then_complete (specification SpecForced).
MaxForcedLen == 1
MaxAcceptors == 2

\* ------------------------------------------------------------------------
\* Vocabulary
\* ------------------------------------------------------------------------
RDF_TYPE == "http://www.w3.org/1999/02/22-rdf-syntax-ns#type"
OWL_Ontology == "http://www.w3.org/2002/07/owl#Ontology"
OWL_VersionIRI == "http://www.w3.org/2002/07/owl#versionIRI"
OWL_Class == "http://www.w3.org/2002/07/owl#Class"

\* Option<T>
None == <<>>
Some(x) == <<x>>

\* sophia Term: an IRI (IriData, modelled by its text), a blank node or a
\* literal.
Iri(s) == [tag |-> "Iri", val |-> s]
BNode(s) == [tag |-> "BNode", val |-> s]
Literal(s) == [tag |-> "Literal", val |-> s]

\* The triples the triple source may yield.
UserIris == {"http://example.com/a", "http://example.com/b"}
Subjects == {Iri(s) : s \in UserIris} \cup {BNode("x")}
Predicates == {Iri(RDF_TYPE), Iri(OWL_VersionIRI)}
Objects == {Iri(OWL_Ontology), Iri(OWL_Class), Iri("http://example.com/a"),
            Literal("lit")}
Triples == Subjects \X Predicates \X Objects

\* Items of the triple iterator: Result<[Term; 3], sophia::error::Error>
Ok(t) == [tag |-> "Ok", triple |-> t]
Err == [tag |-> "Err"]
Items == {Ok(t) : t \in Triples} \cup {Err}

\* AcceptState; Panic stands for the call not returning (unimplemented!()).
Accept == [tag |-> "Accept"]
Return(t) == [tag |-> "Return", triple |-> t]
BackTrack(v) == [tag |-> "BackTrack", triples |-> v]
Panic == [tag |-> "Panic"]

\* ------------------------------------------------------------------------
\* Construction context and ontology model (crate::model)
\* ------------------------------------------------------------------------
to_string(i) == i
Build_iri(s) == [IRI |-> s]
Build_class(s) == [Class |-> Build_iri(s)]
declaration(n) == [DeclareClass |-> n]
AnnotatedAxiom(ax) == [axiom |-> ax, ann |-> {}]
Ontology_default == [iri |-> None, viri |-> None, axiom |-> {}]
Ontology_insert(o, ax) == [o EXCEPT !.axiom = @ \cup {ax}]

\* The reader of the structured serialization (crate::io::reader), on a
\* document with an optional ontology IRI and a set of declared classes:
\* the ontology id and one class declaration per declared class.
reader_read(doc) ==
    [iri |-> IF doc.iri = None THEN None ELSE Some(Build_iri(doc.iri[1])),
     viri |-> None,
     axiom |-> {AnnotatedAxiom(declaration(Build_class(c))) : c \in doc.classes}]

\* ------------------------------------------------------------------------
\* AnnotatedAxiomAcceptor
\* ------------------------------------------------------------------------
AnnotatedAxiomAcceptor_default == [iri |-> None]

\* fn accept: a call returns the acceptor after the call and the AcceptState.
AnnotatedAxiomAcceptor_accept_ReturnsTriple(self, triple) ==
    IF /\ triple[1].tag = "Iri" /\ triple[2].tag = "Iri" /\ triple[3].tag = "Iri"
       /\ triple[2].val = RDF_TYPE
    THEN [self |-> [self EXCEPT !.iri = Some(triple[1].val)], state |-> Accept]
    ELSE [self |-> self, state |-> Return(triple)]

AnnotatedAxiomAcceptor_accept_AnyPredicate(self, triple) ==
    IF triple[1].tag = "Iri" /\ triple[2].tag = "Iri" /\ triple[3].tag = "Iri"
    THEN [self |-> [self EXCEPT !.iri = Some(triple[1].val)], state |-> Accept]
    ELSE [self |-> self, state |-> Panic]

AnnotatedAxiomAcceptor_accept_OnlyClass(self, triple) ==
    IF /\ triple[1].tag = "Iri" /\ triple[2].tag = "Iri" /\ triple[3].tag = "Iri"
       /\ triple[2].val = RDF_TYPE
       /\ triple[3].val = OWL_Class
    THEN [self |-> [self EXCEPT !.iri = Some(triple[1].val)], state |-> Accept]
    ELSE [self |-> self, state |-> Panic]

AnnotatedAxiomAcceptor_accept(self, triple) ==
    IF /\ triple[1].tag = "Iri" /\ triple[2].tag = "Iri" /\ triple[3].tag = "Iri"
       /\ triple[2].val = RDF_TYPE
    THEN [self |-> [self EXCEPT !.iri = Some(triple[1].val)], state |-> Accept]
    ELSE [self |-> self, state |-> Panic]

\* fn complete: Ok(axiom), or Panic when self.iri.unwrap() meets None.
AnnotatedAxiomAcceptor_complete_OrDefault(self, o) ==
    IF self.iri = None
    THEN [tag |-> "Ok", val |-> AnnotatedAxiom(declaration(Build_class("")))]
    ELSE [tag |-> "Ok",
          val |-> AnnotatedAxiom(declaration(Build_class(to_string(self.iri[1]))))]

AnnotatedAxiomAcceptor_complete(self, o) ==
    IF self.iri = None
    THEN Panic
    ELSE [tag |-> "Ok",
          val |-> AnnotatedAxiom(declaration(Build_class(to_string(self.iri[1]))))]

\* ------------------------------------------------------------------------
\* OntologyAcceptor
\* ------------------------------------------------------------------------
OntologyAcceptor_default ==
    [incomplete |-> <<>>, complete_acceptors |-> <<>>, iri |-> None, viri |-> None]

\* First match arm's pattern and guard.
IsOntologyArm(self, triple) ==
    /\ triple[1].tag = "Iri" /\ triple[2].tag = "Iri" /\ triple[3].tag = "Iri"
    /\ triple[2].val = RDF_TYPE
    /\ triple[3].val = OWL_Ontology

\* Second match arm's pattern and guard.
IsVersionArm_AnySubject(self, triple) ==
    /\ triple[1].tag = "Iri" /\ triple[2].tag = "Iri" /\ triple[3].tag = "Iri"
    /\ triple[2].val = OWL_VersionIRI

IsVersionArm_IriKnown(self, triple) ==
    /\ triple[1].tag = "Iri" /\ triple[2].tag = "Iri" /\ triple[3].tag = "Iri"
    /\ self.iri # None
    /\ triple[2].val = OWL_VersionIRI

IsVersionArm_ObjectIsIri(self, triple) ==
    /\ triple[1].tag = "Iri" /\ triple[2].tag = "Iri" /\ triple[3].tag = "Iri"
    /\ self.iri = Some(triple[3].val)
    /\ triple[2].val = OWL_VersionIRI

IsVersionArm(self, triple) ==
    /\ triple[1].tag = "Iri" /\ triple[2].tag = "Iri" /\ triple[3].tag = "Iri"
    /\ self.iri = Some(triple[1].val)
    /\ triple[2].val = OWL_VersionIRI

\* Third match arm: a fresh AnnotatedAxiomAcceptor d is offered the triple.
\* The result carries d as it is after the call.
DispatchArm_ToIncomplete(self, triple) ==
    LET r == AnnotatedAxiomAcceptor_accept(AnnotatedAxiomAcceptor_default, triple)
    IN  IF r.state.tag = "Accept"
        THEN [self |-> [self EXCEPT !.incomplete = Append(@, r.self)],
              state |-> Accept, d |-> Some(r.self)]
        ELSE [self |-> self, state |-> r.state, d |-> Some(r.self)]

DispatchArm_NoPush(self, triple) ==
    LET r == AnnotatedAxiomAcceptor_accept(AnnotatedAxiomAcceptor_default, triple)
    IN  [self |-> self, state |-> r.state, d |-> Some(r.self)]

DispatchArm_PushFresh(self, triple) ==
    LET r == AnnotatedAxiomAcceptor_accept(AnnotatedAxiomAcceptor_default, triple)
    IN  IF r.state.tag = "Accept"
        THEN [self |-> [self EXCEPT !.complete_acceptors =
                                        Append(@, AnnotatedAxiomAcceptor_default)],
              state |-> Accept, d |-> Some(r.self)]
        ELSE [self |-> self, state |-> r.state, d |-> Some(r.self)]

DispatchArm_KeepLast(self, triple) ==
    LET r == AnnotatedAxiomAcceptor_accept(AnnotatedAxiomAcceptor_default, triple)
    IN  IF r.state.tag = "Accept"
        THEN [self |-> [self EXCEPT !.complete_acceptors = <<r.self>>],
              state |-> Accept, d |-> Some(r.self)]
        ELSE [self |-> self, state |-> r.state, d |-> Some(r.self)]

DispatchArm(self, triple) ==
    LET r == AnnotatedAxiomAcceptor_accept(AnnotatedAxiomAcceptor_default, triple)
    IN  IF r.state.tag = "Accept"
        THEN [self |-> [self EXCEPT !.complete_acceptors = Append(@, r.self)],
              state |-> Accept, d |-> Some(r.self)]
        ELSE [self |-> self, state |-> r.state, d |-> Some(r.self)]

\* fn accept
OntologyAcceptor_accept_SwapVersion(self, triple) ==
    IF IsOntologyArm(self, triple)
    THEN [self |-> [self EXCEPT !.iri = Some(triple[1].val)],
          state |-> Accept, d |-> None]
    ELSE IF IsVersionArm(self, triple)
    THEN [self |-> [self EXCEPT !.viri = Some(triple[1].val)],
          state |-> Accept, d |-> None]
    ELSE DispatchArm(self, triple)

OntologyAcceptor_accept_TypingAlsoDeclared(self, triple) ==
    IF IsOntologyArm(self, triple)
    THEN [self |-> [self EXCEPT !.iri = Some(triple[1].val),
                                !.complete_acceptors =
                                    Append(@, [iri |-> Some(triple[1].val)])],
          state |-> Accept, d |-> None]
    ELSE IF IsVersionArm(self, triple)
    THEN [self |-> [self EXCEPT !.viri = Some(triple[3].val)],
          state |-> Accept, d |-> None]
    ELSE DispatchArm(self, triple)

OntologyAcceptor_accept_ResetVersion(self, triple) ==
    IF IsOntologyArm(self, triple)
    THEN [self |-> [self EXCEPT !.iri = Some(triple[1].val), !.viri = None],
          state |-> Accept, d |-> None]
    ELSE IF IsVersionArm(self, triple)
    THEN [self |-> [self EXCEPT !.viri = Some(triple[3].val)],
          state |-> Accept, d |-> None]
    ELSE DispatchArm(self, triple)

OntologyAcceptor_accept(self, triple) ==
    IF IsOntologyArm(self, triple)
    THEN [self |-> [self EXCEPT !.iri = Some(triple[1].val)],
          state |-> Accept, d |-> None]
    ELSE IF IsVersionArm(self, triple)
    THEN [self |-> [self EXCEPT !.viri = Some(triple[3].val)],
          state |-> Accept, d |-> None]
    ELSE DispatchArm(self, triple)

\* fn complete, up to the loop: the ontology passed in is shadowed.
\* Option::map(|i| b.iri(i.to_string()))
map_iri(opt) == IF opt = None THEN None ELSE Some(Build_iri(to_string(opt[1])))

OntologyAcceptor_complete_begin(self) ==
    [Ontology_default EXCEPT !.iri = map_iri(self.iri), !.viri = map_iri(self.viri)]

\* ------------------------------------------------------------------------
\* State
\* ------------------------------------------------------------------------
VARIABLES
    input,      \* the items the triple iterator yields, in order
    pos,        \* number of items the driver's loop has consumed
    acceptor,   \* the OntologyAcceptor owned by read_then_complete
    last,       \* argument, fresh acceptor d and AcceptState of the last accept call
    pc,         \* "read", "complete", "done" or "panic"
    o,          \* the Ontology local to OntologyAcceptor::complete
    k,          \* number of complete_acceptors already finalized
    result      \* value returned by read_then_complete, None until it returns

vars == <<input, pos, acceptor, last, pc, o, k, result>>

NoCall == [triple |-> <<>>, state |-> [tag |-> "NoCall"], d |-> None]

SeqsUpTo(S, n) == UNION {[1..m -> S] : m \in 0..n}

\* read_with_build: the driver starts with a default acceptor.
Init ==
    /\ input \in SeqsUpTo(Items, MaxLen)
    /\ pos = 0
    /\ acceptor = OntologyAcceptor_default
    /\ last = NoCall
    /\ pc = "read"
    /\ o = Ontology_default
    /\ k = 0
    /\ result = None

\* read_then_complete called with any OntologyAcceptor value.
AxiomAcceptors == {[iri |-> None]} \cup {[iri |-> Some(s)] : s \in UserIris}
OntologyAcceptors ==
    [incomplete : SeqsUpTo(AxiomAcceptors, MaxAcceptors - 1),
     complete_acceptors : SeqsUpTo(AxiomAcceptors, MaxAcceptors),
     iri : {None} \cup {Some(s) : s \in UserIris},
     viri : {None, Some("http://example.com/a")}]

InitForced ==
    /\ input \in SeqsUpTo(Items, MaxForcedLen)
    /\ pos = 0
    /\ acceptor \in OntologyAcceptors
    /\ last = NoCall
    /\ pc = "read"
    /\ o = Ontology_default
    /\ k = 0
    /\ result = None

\* ------------------------------------------------------------------------
\* read_then_complete
\* ------------------------------------------------------------------------
\* One iteration of the for loop on a well-formed item: acceptor.accept(b, t);
\* the AcceptState is discarded.
read_accept ==
    /\ pc = "read"
    /\ pos < Len(input)
    /\ input[pos + 1].tag = "Ok"
    /\ LET t == input[pos + 1].triple
           r == OntologyAcceptor_accept(acceptor, t)
       IN  /\ last' = [triple |-> t, state |-> r.state, d |-> r.d]
           /\ acceptor' = r.self
           /\ IF r.state.tag = "Panic"
              THEN pc' = "panic" /\ pos' = pos
              ELSE pc' = "read" /\ pos' = pos + 1
    /\ UNCHANGED <<input, o, k, result>>

\* One iteration of the for loop on a parse failure: t.unwrap() panics.
read_unwrap_err_Skip ==
    /\ pc = "read"
    /\ pos < Len(input)
    /\ input[pos + 1].tag = "Err"
    /\ pos' = pos + 1
    /\ UNCHANGED <<input, pc, acceptor, last, o, k, result>>

read_unwrap_err ==
    /\ pc = "read"
    /\ pos < Len(input)
    /\ input[pos + 1].tag = "Err"
    /\ pc' = "panic"
    /\ UNCHANGED <<input, pos, acceptor, last, o, k, result>>

\* The iterator is exhausted: acceptor.complete is entered.
complete_begin_Early ==
    /\ pc = "read"
    /\ pos <= Len(input)
    /\ o' = OntologyAcceptor_complete_begin(acceptor)
    /\ k' = 0
    /\ pc' = "complete"
    /\ UNCHANGED <<input, pos, acceptor, last, result>>

complete_begin ==
    /\ pc = "read"
    /\ pos = Len(input)
    /\ o' = OntologyAcceptor_complete_begin(acceptor)
    /\ k' = 0
    /\ pc' = "complete"
    /\ UNCHANGED <<input, pos, acceptor, last, result>>

\* One iteration of the loop over complete_acceptors.
complete_acceptor_Reverse ==
    /\ pc = "complete"
    /\ k < Len(acceptor.complete_acceptors)
    /\ LET n == Len(acceptor.complete_acceptors)
           r == AnnotatedAxiomAcceptor_complete(acceptor.complete_acceptors[n - k], o)
       IN  IF r.tag = "Ok"
           THEN /\ o' = Ontology_insert(o, r.val)
                /\ k' = k + 1
                /\ pc' = "complete"
           ELSE /\ pc' = "panic"
                /\ UNCHANGED <<o, k>>
    /\ UNCHANGED <<input, pos, acceptor, last, result>>

complete_acceptor ==
    /\ pc = "complete"
    /\ k < Len(acceptor.complete_acceptors)
    /\ LET r == AnnotatedAxiomAcceptor_complete(acceptor.complete_acceptors[k + 1], o)
       IN  IF r.tag = "Ok"
           THEN /\ o' = Ontology_insert(o, r.val)
                /\ k' = k + 1
                /\ pc' = "complete"
           ELSE /\ pc' = "panic"
                /\ UNCHANGED <<o, k>>
    /\ UNCHANGED <<input, pos, acceptor, last, result>>

\* return Ok(o)
complete_return ==
    /\ pc = "complete"
    /\ k = Len(acceptor.complete_acceptors)
    /\ result' = Some(o)
    /\ pc' = "done"
    /\ UNCHANGED <<input, pos, acceptor, last, o, k>>

Next ==
    \/ read_accept
    \/ read_unwrap_err
    \/ complete_begin
    \/ complete_acceptor
    \/ complete_return

Spec == Init /\ [][Next]_vars
SpecForced == InitForced /\ [][Next]_vars

\* ------------------------------------------------------------------------
\* Vocabulary of the properties
\* ------------------------------------------------------------------------
\* Item i of the stream is a well-formed triple, T(i).
OkAt(i) == i \in 1..Len(input) /\ input[i].tag = "Ok"
T(i) == input[i].triple
\* (S, rdf:type, owl:Ontology) for an IRI S
IsOntologyTyping(t) ==
    t[1].tag = "Iri" /\ t[2] = Iri(RDF_TYPE) /\ t[3] = Iri(OWL_Ontology)
\* (iri, owl:versionIRI, V) for the recorded primary IRI and an IRI V
IsVersionOf(t, iri) ==
    /\ t[1].tag = "Iri" /\ t[2] = Iri(OWL_VersionIRI) /\ t[3].tag = "Iri"
    /\ iri = Some(t[1].val)
\* (S, rdf:type, O) for IRIs S and O
IsTypeShape(t) == t[1].tag = "Iri" /\ t[2] = Iri(RDF_TYPE) /\ t[3].tag = "Iri"
\* (S, owl:versionIRI, V) for IRIs S and V
IsVersionShape(t) == t[1].tag = "Iri" /\ t[2] = Iri(OWL_VersionIRI) /\ t[3].tag = "Iri"
\* The driver has offered item i to the acceptor (the call may have panicked).
Offered(i) ==
    \/ pos >= i
    \/ pos = i - 1 /\ pc = "panic" /\ input[i].tag = "Ok"
\* No ontology-typing triple is among the first n items.
NoTypingBefore(n) == \A j \in 1..n : OkAt(j) => ~IsOntologyTyping(T(j))
\* The expected declaration of class C, without annotations.
ClassDeclaration(C) ==
    [axiom |-> [DeclareClass |-> [Class |-> [IRI |-> C]]], ann |-> {}]

\* ------------------------------------------------------------------------
\* C1. Feeding (O, rdf:type, owl:Ontology) and then (O, owl:versionIRI, V)
\* and finalizing yields an Ontology with primary IRI O, version IRI V and
\* no axioms; the read does not fail.
\* ------------------------------------------------------------------------
\* The stream is exactly (O, rdf:type, owl:Ontology), (O, owl:versionIRI, V).
IsIdentityStream ==
    /\ Len(input) = 2
    /\ OkAt(1) /\ IsOntologyTyping(T(1))
    /\ OkAt(2) /\ IsVersionShape(T(2))
    /\ T(2)[1] = T(1)[1]

C1_OntologyIdentity ==
    IsIdentityStream =>
        /\ pc # "panic"
        /\ pc = "done" =>
             result = Some([iri |-> Some([IRI |-> T(1)[1].val]),
                            viri |-> Some([IRI |-> T(2)[3].val]),
                            axiom |-> {}])

C1_Witness ==
    /\ IsIdentityStream
    /\ T(2)[3] # T(1)[1]
    /\ pc = "done"
    /\ result # None

\* ------------------------------------------------------------------------
\* C2. The first ontology-typing triple wins: once the first triple
\* (S, rdf:type, owl:Ontology) of the stream has been offered, the recorded
\* primary IRI is S, and so is the primary IRI of the finalized Ontology.
\* ------------------------------------------------------------------------
C2_FirstOntologyTripleWins ==
    \A i \in 1..Len(input) :
        (/\ OkAt(i) /\ IsOntologyTyping(T(i))
         /\ NoTypingBefore(i - 1)
         /\ pos >= i) =>
            /\ acceptor.iri = Some(T(i)[1].val)
            /\ result # None => result[1].iri = Some([IRI |-> T(i)[1].val])

\* ------------------------------------------------------------------------
\* C3. A version-IRI triple (O, owl:versionIRI, V) offered before any
\* ontology-typing triple is handed to a fresh axiom-acceptor and is never
\* recorded as the version IRI, neither in the acceptor nor in a result.
\* ------------------------------------------------------------------------
C3_VersionBeforeTyping ==
    \A i \in 1..Len(input) :
        (/\ OkAt(i) /\ IsVersionShape(T(i))
         /\ NoTypingBefore(i - 1)
         /\ Offered(i)) =>
            /\ acceptor.viri = None
            /\ last.triple = T(i) => last.d # None
            /\ result # None => result[1].viri = None

C3_Witness ==
    \E i \in 1..Len(input) :
        /\ OkAt(i) /\ IsVersionShape(T(i))
        /\ NoTypingBefore(i - 1)
        /\ Offered(i)
        /\ OkAt(i + 1) /\ IsOntologyTyping(T(i + 1)) /\ T(i + 1)[1] = T(i)[1]
        /\ last.triple = T(i)
        /\ last.d # None

\* ------------------------------------------------------------------------
\* C4. Given (O, rdf:type, owl:Ontology) followed by (O2, owl:versionIRI, V)
\* with O2 # O, the version field stays unset and the read never returns an
\* Ontology.
\* ------------------------------------------------------------------------
\* The stream starts (O, rdf:type, owl:Ontology), (O2, owl:versionIRI, V)
\* with O2 # O.
IsMismatchedStream ==
    /\ OkAt(1) /\ IsOntologyTyping(T(1))
    /\ OkAt(2) /\ IsVersionShape(T(2))
    /\ T(2)[1] # T(1)[1]

C4_MismatchedVersionSubject ==
    IsMismatchedStream =>
        /\ acceptor.viri = None
        /\ result = None
        /\ pc \in {"read", "panic"}
        /\ pos <= 1

C4_Witness ==
    /\ IsMismatchedStream
    /\ Offered(2)
    /\ acceptor.iri = Some(T(1)[1].val)
    /\ last.triple = T(2)

\* ------------------------------------------------------------------------
\* C5. Feeding exactly one triple (C, rdf:type, owl:Class) and finalizing
\* yields an Ontology without primary IRI, without version IRI and with
\* exactly one axiom, the declaration of class C without annotations.
\* ------------------------------------------------------------------------
\* The stream is exactly (C, rdf:type, owl:Class).
IsOneClassStream ==
    /\ Len(input) = 1
    /\ OkAt(1) /\ IsTypeShape(T(1)) /\ T(1)[3] = Iri(OWL_Class)

C5_OneClass ==
    IsOneClassStream =>
        /\ pc # "panic"
        /\ pc = "done" =>
             result = Some([iri |-> None, viri |-> None,
                            axiom |-> {ClassDeclaration(T(1)[1].val)}])

C5_Witness ==
    /\ IsOneClassStream
    /\ pc = "done"
    /\ result # None
    /\ Cardinality(result[1].axiom) = 1

C8_DroppedWithoutError ==
    (last.d # None /\ ~IsTypeShape(last.triple)) =>
        /\ last.state.tag \in {"Accept", "Return", "BackTrack"}
        /\ pc # "panic"

\* C8 as amended. Offering the ontology-level acceptor a triple that is not
\* an ontology-identity triple and that the declaration acceptor does not
\* accept is fatal: the acceptor's state is unchanged, the driver consumes
\* no further item and never finalizes.
C8_UnclaimedTripleIsFatal ==
    [][(/\ pc = "read" /\ pos < Len(input) /\ input[pos + 1].tag = "Ok"
        /\ ~IsOntologyTyping(input[pos + 1].triple)
        /\ ~IsVersionOf(input[pos + 1].triple, acceptor.iri)
        /\ ~IsTypeShape(input[pos + 1].triple)) =>
            /\ acceptor' = acceptor
            /\ pc' = "panic"
            /\ pos' = pos
            /\ result' = None
      ]_vars

C8_Witness ==
    /\ pc = "panic"
    /\ pos >= 1
    /\ pos < Len(input)
    /\ last.d # None
    /\ ~IsTypeShape(last.triple)
    /\ last.triple = input[pos + 1].triple

\* ------------------------------------------------------------------------
\* C9. Offering the declaration axiom-acceptor a triple that is not of
\* shape (IRI, rdf:type, IRI) is fatal: the call yields neither Accept,
\* Return nor BackTrack, the item is the last one processed and the read
\* produces no Ontology.
\* ------------------------------------------------------------------------
C9_UnimplementedShapeIsFatal ==
    (last.d # None /\ ~IsTypeShape(last.triple)) =>
        /\ last.state.tag \notin {"Accept", "Return", "BackTrack"}
        /\ last.d = Some(AnnotatedAxiomAcceptor_default)
        /\ pc = "panic"
        /\ pos < Len(input) /\ input[pos + 1] = Ok(last.triple)
        /\ result = None

C9_Witness ==
    /\ last.d # None
    /\ ~IsTypeShape(last.triple)
    /\ last.triple[1].tag = "BNode"
    /\ pos + 1 < Len(input)

\* ------------------------------------------------------------------------
\* C10. Finalizing an axiom-acceptor that has no subject recorded fails
\* instead of producing an axiom, and the failure aborts the build: with
\* such an acceptor among the finished ones no Ontology is returned, and
\* every axiom built before the failure is the declaration of a recorded
\* subject.
\* ------------------------------------------------------------------------
C10_ForcedFinalizationFails ==
    /\ \A i \in 1..Len(acceptor.complete_acceptors) :
         acceptor.complete_acceptors[i].iri = None =>
             /\ k < i
             /\ pc # "done"
             /\ result = None
    /\ \A ax \in o.axiom :
         \E j \in 1..k :
             /\ acceptor.complete_acceptors[j].iri # None
             /\ ax = ClassDeclaration(acceptor.complete_acceptors[j].iri[1])

C10_Witness ==
    /\ pc = "panic"
    /\ pos = Len(input)
    /\ k >= 1
    /\ k < Len(acceptor.complete_acceptors)
    /\ acceptor.complete_acceptors[k + 1].iri = None
    /\ o.axiom # {}
    /\ result = None

\* ------------------------------------------------------------------------
\* C11. A parse failure at position k aborts the read: no item from k on
\* is offered to the acceptor, complete is never entered and no Ontology
\* is returned, whatever was accepted before k.
\* ------------------------------------------------------------------------
C11_ParseFailureAborts ==
    \A i \in 1..Len(input) :
        input[i].tag = "Err" =>
            /\ pos < i
            /\ pc \in {"read", "panic"}
            /\ k = 0
            /\ o = [iri |-> None, viri |-> None, axiom |-> {}]
            /\ result = None

C11_Witness ==
    \E i \in 2..Len(input) :
        /\ input[i].tag = "Err"
        /\ i < Len(input)
        /\ pos = i - 1
        /\ pc = "panic"
        /\ Len(acceptor.complete_acceptors) >= 1
        /\ result = None

\* ------------------------------------------------------------------------
\* C12. The driver is two-phase and order-preserving: every accept call is
\* for the next item of the stream, in arrival order; complete is entered
\* from the read loop only, at most once, and only when every item has
\* been offered; nothing is finalized while items remain.
\* ------------------------------------------------------------------------
C12_TwoPhaseInOrder ==
    [][/\ pos' # pos =>
            /\ pc = "read"
            /\ pos' = pos + 1
            /\ OkAt(pos + 1)
            /\ last'.triple = T(pos + 1)
       /\ last' # last => pc = "read" /\ OkAt(pos + 1) /\ last'.triple = T(pos + 1)
       /\ pc # "read" => pc' # "read"
       /\ (pc = "read" /\ pc' = "complete") => pos = Len(input) /\ k' = 0
       /\ pc' \in {"complete", "done"} => pos' = Len(input)
       /\ (k' # k \/ o' # o \/ result' # result) =>
            /\ pos = Len(input)
            /\ pos' = pos
            /\ acceptor' = acceptor
       /\ pc' = "done" => pc = "complete" /\ k = Len(acceptor.complete_acceptors)
      ]_vars

C12_Witness ==
    /\ pc = "done"
    /\ Len(input) >= 3
    /\ pos = Len(input)
    /\ k >= 2
    /\ result # None

\* ------------------------------------------------------------------------
\* C14. Reading the triple-stream serialization of an ontology made of an
\* ontology IRI and class declarations yields the Ontology the reader of
\* the structured serialization yields for the same content: the same
\* ontology id, the same class declarations and no other axiom.
\* ------------------------------------------------------------------------
\* Positions of the ontology-typing triples and of the class-typing triples.
TypingAt == {i \in 1..Len(input) : OkAt(i) /\ IsOntologyTyping(T(i))}
ClassAt ==
    {i \in 1..Len(input) : OkAt(i) /\ IsTypeShape(T(i)) /\ T(i)[3] = Iri(OWL_Class)}
\* The stream serializes an ontology with one ontology IRI and some classes.
IsClassOntologyStream ==
    /\ Cardinality(TypingAt) = 1
    /\ TypingAt \cup ClassAt = 1..Len(input)
\* The content the stream serializes.
StreamDocument ==
    [iri |-> Some(T(CHOOSE i \in TypingAt : TRUE)[1].val),
     classes |-> {T(i)[1].val : i \in ClassAt}]

C14_SameAsStructuredReader ==
    IsClassOntologyStream =>
        /\ pc # "panic"
        /\ pc = "done" => result = Some(reader_read(StreamDocument))

C14_Witness ==
    /\ IsClassOntologyStream
    /\ Cardinality(ClassAt) >= 2
    /\ 1 \in ClassAt
    /\ pc = "done"
    /\ result # None
    /\ result[1].iri # None

\* ------------------------------------------------------------------------
\* C15. Ontology-level complete starts from an empty Ontology carrying the
\* recorded primary and version IRIs and finalizes the finished acceptors
\* in acceptance order: when the k-th finished acceptor is finalized the
\* Ontology holds exactly the axioms of the finished acceptors 1..k-1, and
\* the returned axiom set is exactly the axioms of all finished acceptors.
\* ------------------------------------------------------------------------
\* The subjects of the first n items that are typing triples (S, rdf:type, O)
\* with O other than owl:Ontology, in arrival order.
RECURSIVE DeclaredSubjects(_)
DeclaredSubjects(n) ==
    IF n = 0 THEN <<>>
    ELSE IF OkAt(n) /\ IsTypeShape(T(n)) /\ ~IsOntologyTyping(T(n))
         THEN Append(DeclaredSubjects(n - 1), T(n)[1].val)
         ELSE DeclaredSubjects(n - 1)
\* The identifier materialized from a recorded IRI.
IdOf(opt) == IF opt = None THEN None ELSE Some([IRI |-> opt[1]])

C15_CompleteInAcceptanceOrder ==
    pc \in {"complete", "done"} =>
        LET ca == acceptor.complete_acceptors
            subjects == DeclaredSubjects(Len(input))
        IN  /\ o.iri = IdOf(acceptor.iri)
            /\ o.viri = IdOf(acceptor.viri)
            /\ Len(ca) = Len(subjects)
            /\ \A j \in 1..Len(ca) : ca[j].iri = Some(subjects[j])
            /\ k <= Len(ca)
            /\ o.axiom = {ClassDeclaration(subjects[j]) : j \in 1..k}
            /\ pc = "done" => k = Len(ca) /\ result = Some(o)

C15_Witness ==
    /\ pc = "complete"
    /\ k = 1
    /\ Len(acceptor.complete_acceptors) >= 2
    /\ acceptor.complete_acceptors[1] # acceptor.complete_acceptors[2]
    /\ acceptor.iri # None
    /\ o.iri # None
    /\ Cardinality(o.axiom) = 1

\* ------------------------------------------------------------------------
\* C16. For every triple (S, rdf:type, O) of IRIs with O other than
\* owl:Ontology the ontology-level accept returns Accept and appends
\* exactly one finished acceptor recording S, whatever O is; the finalized
\* Ontology holds the declaration of S as a class.
\* ------------------------------------------------------------------------
C16_TypeTripleDeclaresClass ==
    [][/\ (/\ pc = "read" /\ OkAt(pos + 1)
           /\ IsTypeShape(T(pos + 1)) /\ ~IsOntologyTyping(T(pos + 1))) =>
              /\ last'.state = Accept
              /\ pc' = "read"
              /\ pos' = pos + 1
              /\ acceptor' =
                   [acceptor EXCEPT !.complete_acceptors =
                        Append(@, [iri |-> Some(T(pos + 1)[1].val)])]
       /\ pc' = "done" =>
              \A i \in 1..Len(input) :
                  (OkAt(i) /\ IsTypeShape(T(i)) /\ ~IsOntologyTyping(T(i))) =>
                      ClassDeclaration(T(i)[1].val) \in result'[1].axiom
      ]_vars

C16_Witness ==
    \E i \in 1..Len(input) :
        /\ OkAt(i) /\ IsTypeShape(T(i))
        /\ T(i)[3] \notin {Iri(OWL_Ontology), Iri(OWL_Class)}
        /\ pc = "done"
        /\ ClassDeclaration(T(i)[1].val) \in result[1].axiom

\* ------------------------------------------------------------------------
\* C17. Frame conditions of the ontology-level accept: an ontology-typing
\* triple changes the primary IRI only, a version-IRI triple of the
\* recorded primary IRI changes the version IRI only, and neither spawns
\* an acceptor; any other triple leaves both IRIs and the in-progress
\* population unchanged and appends at most one finished acceptor.
\* ------------------------------------------------------------------------
C17_AcceptFrame ==
    [][(pc = "read" /\ OkAt(pos + 1)) =>
        LET t == T(pos + 1)
            ca == acceptor.complete_acceptors
        IN  IF IsOntologyTyping(t)
            THEN /\ acceptor' = [acceptor EXCEPT !.iri = Some(t[1].val)]
                 /\ last'.d = None
            ELSE IF IsVersionOf(t, acceptor.iri)
            THEN /\ acceptor' = [acceptor EXCEPT !.viri = Some(t[3].val)]
                 /\ last'.d = None
            ELSE /\ acceptor'.iri = acceptor.iri
                 /\ acceptor'.viri = acceptor.viri
                 /\ acceptor'.incomplete = acceptor.incomplete
                 /\ \/ acceptor'.complete_acceptors = ca
                    \/ /\ Len(acceptor'.complete_acceptors) = Len(ca) + 1
                       /\ SubSeq(acceptor'.complete_acceptors, 1, Len(ca)) = ca
      ]_vars

C17_Witness ==
    /\ pc = "read"
    /\ last.state = Accept
    /\ last.d = None
    /\ IsVersionShape(last.triple)
    /\ acceptor.viri # None
    /\ Len(acceptor.complete_acceptors) >= 1

\* ------------------------------------------------------------------------
\* C18. In every state reached through the driver the in-progress sequence
\* is empty and every finished acceptor has a recorded subject; so
\* finalization never fails, and the number of finished acceptors is the
\* number of dispatched triples that were accepted.
\* ------------------------------------------------------------------------
C18_FinishedAcceptorsHaveSubjects ==
    /\ acceptor.incomplete = <<>>
    /\ \A i \in 1..Len(acceptor.complete_acceptors) :
         acceptor.complete_acceptors[i].iri # None
    /\ pc = "panic" => pos < Len(input) /\ k = 0 /\ o.axiom = {}
    /\ Len(acceptor.complete_acceptors) = Len(DeclaredSubjects(pos))

C18_Witness ==
    /\ pc = "done"
    /\ Len(acceptor.complete_acceptors) >= 2
    /\ acceptor.iri # None
    /\ k = Len(acceptor.complete_acceptors)
    /\ result # None

\* ------------------------------------------------------------------------
\* C19. A recorded version IRI implies a recorded primary IRI, and the
\* version IRI is only ever taken from a triple whose subject is the
\* primary IRI recorded when the triple is offered; no returned Ontology
\* has a version IRI without a primary IRI.
\* ------------------------------------------------------------------------
C19_VersionImpliesIri ==
    [][/\ acceptor.viri # None => acceptor.iri # None
       /\ acceptor'.viri # None => acceptor'.iri # None
       /\ acceptor'.viri # acceptor.viri =>
            /\ pc = "read" /\ OkAt(pos + 1)
            /\ IsVersionShape(T(pos + 1))
            /\ acceptor.iri = Some(T(pos + 1)[1].val)
            /\ acceptor'.viri = Some(T(pos + 1)[3].val)
       /\ (result' # None /\ result'[1].viri # None) => result'[1].iri # None
      ]_vars

C19_Witness ==
    /\ pc = "done"
    /\ acceptor.viri # None
    /\ acceptor.iri # None
    /\ acceptor.viri # acceptor.iri
    /\ result # None
    /\ result[1].viri # None

\* ------------------------------------------------------------------------
\* C20. For a stream of class-typing triples (S, rdf:type, O) the returned
\* Ontology is determined by the set of subjects: it has no ontology id and
\* exactly one declaration per distinct subject, whatever the order of the
\* triples and however often a triple is repeated.
\* ------------------------------------------------------------------------
\* Every item is a triple (S, rdf:type, O) of IRIs, O other than owl:Ontology.
IsClassStream ==
    /\ Len(input) >= 1
    /\ \A i \in 1..Len(input) :
         OkAt(i) /\ IsTypeShape(T(i)) /\ ~IsOntologyTyping(T(i))
StreamSubjects == {T(i)[1].val : i \in 1..Len(input)}

C20_OnlySubjectSetMatters ==
    IsClassStream =>
        /\ pc # "panic"
        /\ pc = "done" =>
             /\ result = Some([iri |-> None, viri |-> None,
                               axiom |-> {ClassDeclaration(S) : S \in StreamSubjects}])
             /\ Cardinality(result[1].axiom) = Cardinality(StreamSubjects)

C20_Witness ==
    /\ IsClassStream
    /\ Len(input) >= 3
    /\ T(1) = T(3)
    /\ T(2)[1] # T(1)[1]
    /\ pc = "done"
    /\ result # None
    /\ Cardinality(result[1].axiom) = 2

====
